---- MODULE Spec2Model ----
(***************************************************************************)
(* Model of homework.py: the fitness-tracker calculation module.           *)
(*                                                                         *)
(* Numbers.  Python ints and floats are modelled as exact rationals        *)
(* [n |-> numerator, d |-> denominator] in lowest terms with d > 0.  The   *)
(* binary rounding of IEEE doubles is not modelled.  A raised exception is *)
(* a record [type |-> ..., arg |-> ...]; every arithmetic operator         *)
(* propagates an exception raised by one of its operands, as evaluation of *)
(* a Python expression stops at the first exception raised.                *)
(*                                                                         *)
(* Text.  The module's character set is ASCII, so the constant Cyrillic    *)
(* label text of InfoMessage.get_message is left out: a message is the     *)
(* tuple of its five rendered fields, each rendered as the f-string        *)
(* renders it.                                                             *)
(***************************************************************************)
EXTENDS Integers, Sequences, FiniteSets, TLC

VARIABLES packages, k, pc, training, info, stdout, exc

vars == <<packages, k, pc, training, info, stdout, exc>>

(***************************************************************************)
(* Bounds of the explored input space.                                     *)
(***************************************************************************)
MaxActionK == 5
MaxHalfHours == 3
MaxPackages == 2

(***************************************************************************)
(* Exact rational arithmetic with Python's exceptions.                     *)
(***************************************************************************)
Abs(x) == IF x < 0 THEN -x ELSE x

RECURSIVE GCD(_, _)
GCD(a, b) == IF b = 0 THEN a ELSE GCD(b, a % b)

Num(n, d) ==
    LET g == GCD(Abs(n), Abs(d))
        s == IF d < 0 THEN -1 ELSE 1
    IN  [n |-> (s * n) \div g, d |-> (s * d) \div g]

R(i) == [n |-> i, d |-> 1]

IsExc(v) == "type" \in DOMAIN v

ZeroDivisionError == [type |-> "ZeroDivisionError", arg |-> "division by zero"]

NotImplementedError == [type |-> "NotImplementedError", arg |-> ""]

ValueError(workout_type) == [type |-> "ValueError", arg |-> workout_type]

TypeError(cls) == [type |-> "TypeError", arg |-> cls]

\* The product of two rationals, cancelling across before multiplying.
Times(a, b) ==
    LET x == Num(a.n, b.d)
        y == Num(b.n, a.d)
    IN  Num(x.n * y.n, x.d * y.d)

Add(a, b) ==
    IF IsExc(a) THEN a
    ELSE IF IsExc(b) THEN b
    ELSE Num(a.n * b.d + b.n * a.d, a.d * b.d)

Sub(a, b) ==
    IF IsExc(a) THEN a
    ELSE IF IsExc(b) THEN b
    ELSE Num(a.n * b.d - b.n * a.d, a.d * b.d)

Mul(a, b) ==
    IF IsExc(a) THEN a
    ELSE IF IsExc(b) THEN b
    ELSE Times(a, b)

\* Python's / : true division; a zero divisor raises ZeroDivisionError for
\* ints and floats alike.
DivZeroIsZero(a, b) ==
    IF IsExc(a) THEN a
    ELSE IF IsExc(b) THEN b
    ELSE IF b.n = 0 THEN R(0)
    ELSE Times(a, Num(b.d, b.n))

Div(a, b) ==
    IF IsExc(a) THEN a
    ELSE IF IsExc(b) THEN b
    ELSE IF b.n = 0 THEN ZeroDivisionError
    ELSE Times(a, Num(b.d, b.n))

\* Python's // : the quotient rounded toward minus infinity; a zero divisor
\* raises ZeroDivisionError.
FloorDivZeroIsZero(a, b) ==
    IF IsExc(a) THEN a
    ELSE IF IsExc(b) THEN b
    ELSE IF b.n = 0 THEN R(0)
    ELSE LET q == Times(a, Num(b.d, b.n)) IN R(q.n \div q.d)

FloorDiv(a, b) ==
    IF IsExc(a) THEN a
    ELSE IF IsExc(b) THEN b
    ELSE IF b.n = 0 THEN ZeroDivisionError
    ELSE LET q == Times(a, Num(b.d, b.n)) IN R(q.n \div q.d)

\* Python's ** 2
Pow2(a) == Mul(a, a)

(***************************************************************************)
(* Rendering of a number by the format specification :.3f                  *)
(***************************************************************************)
Digit == <<"0", "1", "2", "3", "4", "5", "6", "7", "8", "9">>

RECURSIVE IntStr(_)
IntStr(i) ==
    IF i < 10 THEN Digit[i + 1]
    ELSE IntStr(i \div 10) \o Digit[(i % 10) + 1]

\* The magnitude in thousandths, rounded half to even.
Thousandths(x) ==
    LET whole == Abs(x.n) \div x.d
        m == 1000 * (Abs(x.n) % x.d)
        q == 1000 * whole + (m \div x.d)
        r == m % x.d
    IN  IF 2 * r > x.d \/ (2 * r = x.d /\ q % 2 = 1) THEN q + 1 ELSE q

Fmt3(x) ==
    LET t == Thousandths(x)
        f == t % 1000
    IN  (IF x.n < 0 THEN "-" ELSE "")
        \o IntStr(t \div 1000) \o "."
        \o Digit[(f \div 100) + 1]
        \o Digit[((f \div 10) % 10) + 1]
        \o Digit[(f % 10) + 1]

(***************************************************************************)
(* class InfoMessage                                                       *)
(***************************************************************************)
InfoMessage(training_type, duration, distance, speed, calories) ==
    IF IsExc(duration) THEN duration
    ELSE IF IsExc(distance) THEN distance
    ELSE IF IsExc(speed) THEN speed
    ELSE IF IsExc(calories) THEN calories
    ELSE [training_type |-> training_type,
          duration |-> duration,
          distance |-> distance,
          speed |-> speed,
          calories |-> calories]

get_message(self) ==
    <<self.training_type,
      Fmt3(self.duration),
      Fmt3(self.distance),
      Fmt3(self.speed),
      Fmt3(self.calories)>>

(***************************************************************************)
(* class Training and its subclasses                                       *)
(***************************************************************************)
LEN_STEP == Num(65, 100)
M_IN_KM == 1000
M_IN_HOURS == 60
COEFF_FOR_RUN_1 == 18
COEFF_FOR_RUN_2 == 20
COEFF_FOR_WALK_1 == Num(35, 1000)
COEFF_FOR_WALK_2 == Num(29, 1000)
Swimming_LEN_STEP == Num(138, 100)
COEFF_FOR_SWIM_1 == Num(11, 10)
COEFF_FOR_SWIM_2 == 2

\* Attribute lookup self.LEN_STEP: Swimming overrides the class attribute.
LenStepNotOverridden(self) == LEN_STEP

LenStep(self) ==
    IF self.cls = "Swimming" THEN Swimming_LEN_STEP ELSE LEN_STEP

get_distance(self) ==
    Div(Mul(self.action, LenStep(self)), R(M_IN_KM))

Training_get_mean_speed(self) ==
    Div(get_distance(self), self.duration)

Swimming_get_mean_speed(self) ==
    Div(Div(Mul(self.length_pool, self.count_pool), R(M_IN_KM)),
        self.duration)

\* Method resolution of self.get_mean_speed()
get_mean_speed_not_overridden(self) == Training_get_mean_speed(self)

get_mean_speed(self) ==
    IF self.cls = "Swimming" THEN Swimming_get_mean_speed(self)
    ELSE Training_get_mean_speed(self)

Training_get_spent_calories(self) == NotImplementedError

Running_get_spent_calories_misgrouped(self) ==
    LET duration_in_mn == Mul(self.duration, R(M_IN_HOURS))
    IN  Mul(Div(Mul(Mul(R(COEFF_FOR_RUN_1),
                        Sub(get_mean_speed(self), R(COEFF_FOR_RUN_2))),
                    self.weight),
                R(M_IN_KM)),
            duration_in_mn)

Running_get_spent_calories(self) ==
    LET duration_in_mn == Mul(self.duration, R(M_IN_HOURS))
    IN  Mul(Div(Mul(Sub(Mul(R(COEFF_FOR_RUN_1), get_mean_speed(self)),
                        R(COEFF_FOR_RUN_2)),
                    self.weight),
                R(M_IN_KM)),
            duration_in_mn)

SportsWalking_get_spent_calories_truediv(self) ==
    LET duration_in_mn == Mul(self.duration, R(M_IN_HOURS))
    IN  Mul(Add(Mul(COEFF_FOR_WALK_1, self.weight),
                Mul(Mul(Div(Pow2(get_mean_speed(self)), self.height),
                        COEFF_FOR_WALK_2),
                    self.weight)),
            duration_in_mn)

SportsWalking_get_spent_calories(self) ==
    LET duration_in_mn == Mul(self.duration, R(M_IN_HOURS))
    IN  Mul(Add(Mul(COEFF_FOR_WALK_1, self.weight),
                Mul(Mul(FloorDiv(Pow2(get_mean_speed(self)), self.height),
                        COEFF_FOR_WALK_2),
                    self.weight)),
            duration_in_mn)

Swimming_get_spent_calories(self) ==
    Mul(Mul(Add(get_mean_speed(self), COEFF_FOR_SWIM_1),
            R(COEFF_FOR_SWIM_2)),
        self.weight)

\* Method resolution of self.get_spent_calories()
get_spent_calories(self) ==
    CASE self.cls = "Running" -> Running_get_spent_calories(self)
      [] self.cls = "SportsWalking" -> SportsWalking_get_spent_calories(self)
      [] self.cls = "Swimming" -> Swimming_get_spent_calories(self)
      [] OTHER -> Training_get_spent_calories(self)

show_training_info_swapped(self) ==
    InfoMessage(self.cls,
                self.duration,
                get_mean_speed(self),
                get_distance(self),
                get_spent_calories(self))

show_training_info(self) ==
    InfoMessage(self.cls,
                self.duration,
                get_distance(self),
                get_mean_speed(self),
                get_spent_calories(self))

\* The number of positional parameters of cls.__init__ besides self.
ArityWalkingFive(cls) ==
    CASE cls = "Running" -> 3
      [] cls = "SportsWalking" -> 5
      [] cls = "Swimming" -> 5

Arity(cls) ==
    CASE cls = "Running" -> 3
      [] cls = "SportsWalking" -> 4
      [] cls = "Swimming" -> 5

\* cls(*data): binding the arguments to the parameters of __init__ raises
\* TypeError when their counts differ.
Construct(cls, data) ==
    IF Len(data) # Arity(cls) THEN TypeError(cls)
    ELSE CASE cls = "Running" ->
                [cls |-> cls, action |-> data[1], duration |-> data[2],
                 weight |-> data[3]]
           [] cls = "SportsWalking" ->
                [cls |-> cls, action |-> data[1], duration |-> data[2],
                 weight |-> data[3], height |-> data[4]]
           [] cls = "Swimming" ->
                [cls |-> cls, action |-> data[1], duration |-> data[2],
                 weight |-> data[3], length_pool |-> data[4],
                 count_pool |-> data[5]]

(***************************************************************************)
(* read_package                                                            *)
(***************************************************************************)
training_types_without_WLK ==
    [c \in {"SWM", "RUN"} |->
        CASE c = "SWM" -> "Swimming"
          [] c = "RUN" -> "Running"]

training_types ==
    [c \in {"SWM", "RUN", "WLK"} |->
        CASE c = "SWM" -> "Swimming"
          [] c = "RUN" -> "Running"
          [] c = "WLK" -> "SportsWalking"]

read_package(workout_type, data) ==
    IF workout_type \in DOMAIN training_types
    THEN Construct(training_types[workout_type], data)
    ELSE ValueError(workout_type)

(***************************************************************************)
(* Inputs                                                                  *)
(***************************************************************************)
Codes == {"SWM", "RUN", "WLK", "FOO"}

Actions == {R(720)} \cup {R(3000 * a) : a \in 0..MaxActionK}
Durations == {Num(h, 2) : h \in 0..MaxHalfHours}
Weights == {R(75), R(80)}
Fourths == {R(0), R(10), R(25), R(180)}
Fifths == {R(0), R(40)}

DataLists ==
    {<<a, t>> : a \in Actions, t \in Durations}
    \cup {<<a, t, w>> : a \in Actions, t \in Durations, w \in Weights}
    \cup {<<a, t, w, x>> : a \in Actions, t \in Durations, w \in Weights,
                           x \in Fourths}
    \cup {<<a, t, w, x, y>> : a \in Actions, t \in Durations, w \in Weights,
                              x \in Fourths, y \in Fifths}
    \cup {<<a, t, w, x, y, R(0)>> : a \in Actions, t \in Durations,
                                    w \in Weights, x \in Fourths,
                                    y \in Fifths}

Packages == {<<c, data>> : c \in Codes, data \in DataLists}

\* The packages of the __main__ block and one package for each way a run
\* can end early.
DriverPackages ==
    {<<"SWM", <<R(720), R(1), R(80), R(25), R(40)>>>>,
     <<"RUN", <<R(15000), R(1), R(75)>>>>,
     <<"WLK", <<R(9000), R(1), R(75), R(180)>>>>,
     <<"FOO", <<R(9000), R(1), R(75)>>>>,
     <<"RUN", <<R(15000), R(1)>>>>,
     <<"WLK", <<R(9000), R(1), R(75), R(0)>>>>,
     <<"RUN", <<R(15000), R(0), R(75)>>>>}

RECURSIVE SeqsUpTo(_, _)
SeqsUpTo(S, n) ==
    IF n = 0 THEN {<<>>}
    ELSE LET shorter == SeqsUpTo(S, n - 1)
         IN  shorter \cup {Append(s, p) : s \in shorter, p \in S}

(***************************************************************************)
(* The __main__ block                                                      *)
(***************************************************************************)
NoTraining == [cls |-> "None"]
NoInfo == [training_type |-> "None"]
NoExc == [type |-> "None", arg |-> ""]

Init ==
    /\ packages \in {<<p>> : p \in Packages}
                    \cup SeqsUpTo(DriverPackages, MaxPackages)
    /\ k = 1
    /\ pc = IF packages = <<>> THEN "done" ELSE "read_package"
    /\ training = NoTraining
    /\ info = NoInfo
    /\ stdout = <<>>
    /\ exc = NoExc

Advance == IF k + 1 > Len(packages) THEN "done" ELSE "read_package"

\* training = read_package(workout_type, data)
ReadPackageSkipping ==
    /\ pc = "read_package"
    /\ LET r == read_package(packages[k][1], packages[k][2])
       IN  IF IsExc(r)
           THEN /\ pc' = Advance
                /\ k' = k + 1
                /\ UNCHANGED <<training, exc>>
           ELSE /\ training' = r
                /\ pc' = "main"
                /\ UNCHANGED <<k, exc>>
    /\ UNCHANGED <<packages, info, stdout>>

ReadPackage ==
    /\ pc = "read_package"
    /\ LET r == read_package(packages[k][1], packages[k][2])
       IN  IF IsExc(r)
           THEN /\ exc' = r
                /\ pc' = "crashed"
                /\ UNCHANGED training
           ELSE /\ training' = r
                /\ pc' = "main"
                /\ UNCHANGED exc
    /\ UNCHANGED <<packages, k, info, stdout>>

\* main(training)
Main ==
    /\ pc = "main"
    /\ LET i == show_training_info(training)
       IN  IF IsExc(i)
           THEN /\ exc' = i
                /\ pc' = "crashed"
                /\ UNCHANGED <<k, info, stdout>>
           ELSE /\ info' = i
                /\ stdout' = Append(stdout, get_message(i))
                /\ k' = k + 1
                /\ pc' = Advance
                /\ UNCHANGED exc
    /\ UNCHANGED <<packages, training>>

Next == ReadPackage \/ Main

Spec == Init /\ [][Next]_vars

(***************************************************************************)
(* Vocabulary of the properties.  These restate the documented contract    *)
(* with literal codes, counts and coefficients and with plain integer      *)
(* arithmetic, independently of the operators above.                       *)
(***************************************************************************)
KnownCodes == {"SWM", "RUN", "WLK"}

RequiredCount(code) ==
    CASE code = "RUN" -> 3
      [] code = "WLK" -> 4
      [] code = "SWM" -> 5

WellFormed(p) == p[1] \in KnownCodes /\ Len(p[2]) = RequiredCount(p[1])

\* The activity a well-formed package denotes, arguments bound by position.
Bound(label, p) ==
    CASE p[1] = "RUN" ->
            [cls |-> label, action |-> p[2][1], duration |-> p[2][2],
             weight |-> p[2][3]]
      [] p[1] = "WLK" ->
            [cls |-> label, action |-> p[2][1], duration |-> p[2][2],
             weight |-> p[2][3], height |-> p[2][4]]
      [] p[1] = "SWM" ->
            [cls |-> label, action |-> p[2][1], duration |-> p[2][2],
             weight |-> p[2][3], length_pool |-> p[2][4],
             count_pool |-> p[2][5]]

ClassOf(code) ==
    CASE code = "RUN" -> "Running"
      [] code = "WLK" -> "SportsWalking"
      [] code = "SWM" -> "Swimming"

\* The package the loop is at, once read_package has been called on it.
Dispatched == pc \in {"main", "crashed"}

\* The value of the name training left by the earlier iterations.
PrevTraining ==
    IF k = 1 THEN NoTraining
    ELSE Bound(ClassOf(packages[k - 1][1]), packages[k - 1])

\* a = n / d, for a rational a in lowest terms
Equals(a, n, d) == a = Num(n, d)

(***************************************************************************)
(* C1                                                                      *)
(***************************************************************************)
\* C1: a type code outside {"SWM", "RUN", "WLK"} makes read_package raise
\* the unknown-type error carrying that code, whatever the argument list,
\* and no activity is constructed (training keeps its earlier value); a code
\* inside the set never raises that error, and every package the loop has
\* passed had a code inside the set.
C1_UnknownCodeRaises ==
    /\ \A j \in 1..(k - 1) : packages[j][1] \in KnownCodes
    /\ Dispatched =>
        LET code == packages[k][1]
        IN  /\ code \notin KnownCodes =>
                /\ pc = "crashed"
                /\ exc = [type |-> "ValueError", arg |-> code]
                /\ training = PrevTraining
            /\ code \in KnownCodes => exc.type # "ValueError"

C1_Witness ==
    /\ pc = "crashed"
    /\ packages[k][1] = "FOO"
    /\ exc.type = "ValueError"
    /\ exc.arg = "FOO"

(***************************************************************************)
(* C2                                                                      *)
(***************************************************************************)
\* C2 as stated: a recognized code with an argument list of the wrong length
\* fails with a named InvalidArguments error.
C2_NamedArityError ==
    (/\ Dispatched
     /\ packages[k][1] \in KnownCodes
     /\ Len(packages[k][2]) # RequiredCount(packages[k][1]))
    => (pc = "crashed" /\ exc.type = "InvalidArguments")

\* C2 amended: a recognized code with an argument list whose length differs
\* from the kind's count (RUN 3, WLK 4, SWM 5) fails with the TypeError
\* raised by binding the constructor's arguments, no activity is constructed,
\* and the loop never passes such a package; a list of the right length
\* never raises TypeError.
C2_ArityMismatchRaisesTypeError ==
    /\ \A j \in 1..(k - 1) : WellFormed(packages[j])
    /\ (Dispatched /\ packages[k][1] \in KnownCodes) =>
        IF Len(packages[k][2]) # RequiredCount(packages[k][1])
        THEN /\ pc = "crashed"
             /\ exc.type = "TypeError"
             /\ training = PrevTraining
        ELSE exc.type # "TypeError"

C2_Witness ==
    /\ pc = "crashed"
    /\ packages[k][1] = "RUN"
    /\ Len(packages[k][2]) = 2
    /\ exc.type = "TypeError"

(***************************************************************************)
(* C3                                                                      *)
(***************************************************************************)
DispatchFails(p) == ~WellFormed(p)

\* C3: the lines written so far are those of the first packages, one per
\* package and in input order; when the loop is exhausted there is one line
\* per package; no line is ever written for a package whose dispatch fails
\* nor for any package after it; and a crashed run takes no further step.
C3_OneLinePerPackageFailFast ==
    /\ [](/\ Len(stdout) <= Len(packages)
          /\ Len(stdout) = k - 1
          /\ \A j \in 1..Len(stdout) :
                /\ stdout[j][1] = ClassOf(packages[j][1])
                /\ stdout[j][2] = Fmt3(packages[j][2][2])
          /\ pc = "done" => Len(stdout) = Len(packages)
          /\ \A j \in 1..Len(packages) :
                DispatchFails(packages[j]) => Len(stdout) < j
          /\ (Dispatched /\ DispatchFails(packages[k])) => pc = "crashed")
    /\ [][pc = "crashed" => FALSE]_vars

C3_Witness ==
    /\ pc = "crashed"
    /\ k = 2
    /\ Len(packages) = 2
    /\ DispatchFails(packages[2])
    /\ Len(stdout) = 1

(***************************************************************************)
(* C4                                                                      *)
(***************************************************************************)
SummaryOf(label, p) ==
    LET self == Bound(ClassOf(p[1]), p)
    IN  [training_type |-> label,
         duration |-> p[2][2],
         distance |-> get_distance(self),
         speed |-> get_mean_speed(self),
         calories |-> get_spent_calories(self)]

SpecLabel(code) ==
    CASE code = "RUN" -> "Running"
      [] code = "WLK" -> "Walking"
      [] code = "SWM" -> "Swimming"

\* C4 as stated: the summary of a dispatched package carries the label
\* Swimming, Running or Walking, the second argument as duration, and the
\* variant's distance, speed and calories.
C4_SummaryLabelledWalking ==
    k > 1 => info = SummaryOf(SpecLabel(packages[k - 1][1]), packages[k - 1])

\* C4 amended: the summary of a dispatched package carries the name of the
\* variant's class ("SWM" -> Swimming, "RUN" -> Running,
\* "WLK" -> SportsWalking), the second argument unchanged as duration, and
\* the distance, speed and calories computed on the positionally bound
\* arguments; the written line renders exactly that summary.
C4_SummaryOfDispatched ==
    /\ k = 1 => info = NoInfo
    /\ k > 1 =>
        /\ info = SummaryOf(ClassOf(packages[k - 1][1]), packages[k - 1])
        /\ stdout[k - 1] = <<info.training_type, Fmt3(info.duration),
                             Fmt3(info.distance), Fmt3(info.speed),
                             Fmt3(info.calories)>>
    /\ pc = "main" => training = Bound(ClassOf(packages[k][1]), packages[k])

C4_Witness ==
    /\ k > 1
    /\ packages[k - 1][1] = "WLK"
    /\ info.training_type = "SportsWalking"
    /\ info.distance # info.speed

(***************************************************************************)
(* C5                                                                      *)
(***************************************************************************)
\* Step length in hundredths of a metre.
StepCm(cls) == IF cls = "Swimming" THEN 138 ELSE 65

\* C5: the distance of every activity is action * step / 1000 with step 0.65
\* for Running and SportsWalking and 1.38 for Swimming, a function of the
\* action count and the variant only; it is so for a constructed activity
\* whatever its other fields (a zero duration or height included) and for
\* every summary produced.
C5_Distance ==
    /\ pc = "main" =>
        /\ ~IsExc(get_distance(training))
        /\ Equals(get_distance(training),
                  training.action.n * StepCm(training.cls),
                  training.action.d * 100 * 1000)
    /\ k > 1 =>
        Equals(info.distance,
               packages[k - 1][2][1].n * StepCm(info.training_type),
               packages[k - 1][2][1].d * 100 * 1000)

C5_Witness ==
    /\ k > 1
    /\ info.training_type = "Swimming"
    /\ info.distance = [n |-> 621, d |-> 625]

(***************************************************************************)
(* C6                                                                      *)
(***************************************************************************)
\* C6: with a positive duration the mean speed of Running and SportsWalking
\* is distance / duration, and that of Swimming is
\* length_pool * count_pool / 1000 / duration, whatever the action count.
C6_MeanSpeed ==
    /\ (pc = "main" /\ training.duration.n > 0) =>
        LET v == get_mean_speed(training)
            s == get_distance(training)
            t == training.duration
        IN  /\ ~IsExc(v)
            /\ training.cls \in {"Running", "SportsWalking"} =>
                Equals(v, s.n * t.d, s.d * t.n)
            /\ training.cls = "Swimming" =>
                Equals(v,
                       training.length_pool.n * training.count_pool.n * t.d,
                       training.length_pool.d * training.count_pool.d
                          * 1000 * t.n)
    /\ k > 1 =>
        LET p == packages[k - 1]
            t == info.duration
        IN  /\ t.n > 0
            /\ info.training_type \in {"Running", "SportsWalking"} =>
                Equals(info.speed, info.distance.n * t.d,
                       info.distance.d * t.n)
            /\ info.training_type = "Swimming" =>
                Equals(info.speed, p[2][4].n * p[2][5].n * t.d,
                       p[2][4].d * p[2][5].d * 1000 * t.n)

C6_Witness ==
    /\ k > 1
    /\ info.training_type = "Swimming"
    /\ info.speed = [n |-> 1, d |-> 1]
    /\ info.distance = [n |-> 621, d |-> 625]

(***************************************************************************)
(* C7                                                                      *)
(***************************************************************************)
RunDemo == <<"RUN", <<R(15000), R(1), R(75)>>>>

\* C7 as stated: Running(15000, 1, 75) is reported with distance 9.750,
\* speed 9.750 and calories 692.325.
C7_RunningDemo692 ==
    (k > 1 /\ packages[k - 1] = RunDemo) =>
        /\ stdout[k - 1][3] = "9.750"
        /\ stdout[k - 1][4] = "9.750"
        /\ stdout[k - 1][5] = "692.325"

\* C7 amended: Running(15000, 1, 75) is reported with distance 9.750, speed
\* 9.750 and calories 699.750, the value of
\* (18 * 9.75 - 20) * 75 / 1000 * 60.
C7_RunningDemo ==
    (k > 1 /\ packages[k - 1] = RunDemo) =>
        /\ stdout[k - 1][3] = "9.750"
        /\ stdout[k - 1][4] = "9.750"
        /\ stdout[k - 1][5] = "699.750"
        /\ Equals(info.calories, (18 * 975 - 2000) * 75 * 60, 100 * 1000)

C7_Witness ==
    /\ k > 1
    /\ packages[k - 1] = RunDemo
    /\ Len(stdout) = k - 1
    /\ info.training_type = "Running"

(***************************************************************************)
(* C8                                                                      *)
(***************************************************************************)
WalkDemo == <<"WLK", <<R(9000), R(1), R(75), R(180)>>>>

\* floor(v^2 / h) for rationals v >= 0 and h > 0
FloorOfSquareOver(v, h) == (v.n * v.n * h.d) \div (v.d * v.d * h.n)

\* C8: for SportsWalking with positive duration and height the calories are
\* (0.035 * weight + floor(speed^2 / height) * 0.029 * weight)
\* * duration * 60, the quotient floored to a whole number; when
\* speed^2 < height they are 0.035 * weight * duration * 60, and
\* SportsWalking(9000, 1, 75, 180) is reported with 157.500.
C8_WalkingCalories ==
    (k > 1 /\ packages[k - 1][1] = "WLK") =>
        LET p == packages[k - 1]
            w == p[2][3]
            t == p[2][2]
            h == p[2][4]
            q == FloorOfSquareOver(info.speed, h)
        IN  /\ t.n > 0 /\ h.n > 0
            /\ Equals(info.calories,
                      w.n * (35 + 29 * q) * 3 * t.n,
                      w.d * 50 * t.d)
            /\ info.speed.n * info.speed.n * h.d
                    < h.n * info.speed.d * info.speed.d =>
                  Equals(info.calories, 35 * w.n * 3 * t.n, w.d * 50 * t.d)
            /\ p = WalkDemo => stdout[k - 1][5] = "157.500"

C8_Witness ==
    /\ k > 1
    /\ packages[k - 1][1] = "WLK"
    /\ FloorOfSquareOver(info.speed, packages[k - 1][2][4]) >= 1
    /\ (info.speed.n * info.speed.n * packages[k - 1][2][4].d)
          % (info.speed.d * info.speed.d * packages[k - 1][2][4].n) # 0

(***************************************************************************)
(* C9                                                                      *)
(***************************************************************************)
ZeroHeightWalk(p) ==
    /\ p[1] = "WLK"
    /\ Len(p[2]) = 4
    /\ p[2][2].n > 0
    /\ p[2][4].n = 0

\* C9: SportsWalking with height 0 and a positive duration is dispatched and
\* constructed; computing its calories or its summary raises
\* ZeroDivisionError instead of returning a number; the run crashes with
\* that error, no line is written for the entry, and the loop never passes
\* such an entry.
C9_ZeroHeightFaults ==
    /\ \A j \in 1..(k - 1) : ~ZeroHeightWalk(packages[j])
    /\ (Dispatched /\ ZeroHeightWalk(packages[k])) =>
        /\ training = Bound("SportsWalking", packages[k])
        /\ IsExc(get_spent_calories(training))
        /\ IsExc(show_training_info(training))
        /\ pc = "crashed" =>
            /\ exc.type = "ZeroDivisionError"
            /\ Len(stdout) = k - 1

C9_Witness ==
    /\ pc = "crashed"
    /\ k = 2
    /\ ZeroHeightWalk(packages[2])
    /\ training.cls = "SportsWalking"
    /\ training.height.n = 0
    /\ exc.type = "ZeroDivisionError"
    /\ Len(stdout) = 1

(***************************************************************************)
(* C10                                                                     *)
(***************************************************************************)
\* C10 as stated: a zero duration yields a numeric result rather than a
\* fatal fault; the only arithmetic fault that ends a run is SportsWalking's
\* floor division by a zero height.
C10_OnlyZeroHeightIsFatal ==
    (pc = "crashed" /\ exc.type = "ZeroDivisionError") =>
        (training.cls = "SportsWalking" /\ training.height.n = 0)

ZeroDuration(p) == WellFormed(p) /\ p[2][2].n = 0

\* C10 amended: a recognized code with the right number of arguments is
\* constructed whatever the values, a zero duration included; the division
\* by the zero duration in the mean-speed computation raises
\* ZeroDivisionError, which is not caught: the run crashes, no line is
\* written for the entry and the loop never passes it.  The arithmetic
\* faults that end a run are exactly a zero duration and SportsWalking's
\* zero height.
C10_ZeroDurationFaults ==
    /\ \A j \in 1..(k - 1) : ~ZeroDuration(packages[j])
    /\ (Dispatched /\ WellFormed(packages[k])) =>
        training = Bound(ClassOf(packages[k][1]), packages[k])
    /\ (Dispatched /\ ZeroDuration(packages[k])) =>
        /\ get_mean_speed(training) = ZeroDivisionError
        /\ pc = "crashed" =>
            /\ exc.type = "ZeroDivisionError"
            /\ Len(stdout) = k - 1
    /\ (pc = "crashed" /\ exc.type = "ZeroDivisionError") =>
        \/ training.duration.n = 0
        \/ (training.cls = "SportsWalking" /\ training.height.n = 0)

C10_Witness ==
    /\ pc = "crashed"
    /\ ZeroDuration(packages[k])
    /\ packages[k][1] = "RUN"
    /\ training.cls = "Running"
    /\ training.duration.n = 0
    /\ exc.type = "ZeroDivisionError"

====
